---- MODULE Spec2Model ----
(***************************************************************************)
(* Model of the ClamAV protocol client (internal/clamav): one client       *)
(* operation per behaviour, run against a daemon that may reply, close the *)
(* connection or see the transport fail at any point of the exchange.      *)
(*                                                                         *)
(* Bytes are the integers 0..255 and byte strings are sequences of them.   *)
(* An int64 size is the pair (hi, lo) with value hi * 65536 + lo and       *)
(* 0 <= lo < 65536, so that 4294967295 and 4294967296 are representable.   *)
(*                                                                         *)
(* The transport is the one a fake daemon on an in-memory pipe gives: a    *)
(* write to a session the peer has closed, or that has failed, returns an  *)
(* error; a read returns the bytes up to the delimiter, or everything the  *)
(* peer sent followed by end-of-stream once the peer has closed, or an     *)
(* error once the transport has failed; otherwise it blocks.               *)
(***************************************************************************)
EXTENDS Integers, Sequences, FiniteSets, TLC

VARIABLES
    pc,           \* position of the operation: idle, dial, ..., done
    op,           \* the operation called
    size,         \* InStream: declared size (int64 as hi/lo)
    content,      \* InStream: bytes the content reader yields
    readerFails,  \* InStream: the content reader ends with an error, not EOF
    writeThrough, \* InStream: the copy bypasses the bufio.Writer buffer
    ctx,          \* caller's context: live or done (cancelled / expired)
    cancelledAt,  \* pc at which the context became done, or never
    conn,         \* session: none, open, peerClosed, fault
    closedAt,     \* pc at which the daemon closed the session, or never
    closes,       \* number of conn.Close() calls
    sent,         \* bytes the daemon received on the session
    wbuf,         \* bytes held in the bufio.Writer, not yet flushed
    inbox,        \* bytes the daemon wrote on the session
    err,          \* InStream: the local err after a failed copy
    resp,         \* the reply returned by readResponse, if it returned one
    ret,          \* what the operation returned: payload and error
    dials,        \* number of DialContext calls
    proc,         \* FreshClam: the child process
    output,       \* FreshClam: what the child wrote to stdout and stderr
    fn,           \* a function applied on its own: its name
    arg,          \* ... its argument
    out,          \* ... its result, once applied
    cfg,          \* the Client: network and address, set at construction
    calls,        \* concurrent callers: each one's step, operation, session, result
    sessions,     \* the sessions dialed by concurrent callers, in dial order
    http          \* the HTTP response the handler wrote, once it has

\* the child process of FreshClam
childVars == <<proc, output>>
\* a function applied on its own
fnVars == <<fn, arg, out>>
\* operations running concurrently on one Client
concVars == <<cfg, calls, sessions>>
\* what the operations on a session leave alone
otherVars == <<childVars, fnVars, concVars, http>>

vars == <<pc, op, size, content, readerFails, writeThrough, ctx, cancelledAt,
          conn, closedAt, closes, sent, wbuf, inbox, err, resp, ret, dials,
          childVars, fnVars, concVars, http>>

(***************************************************************************)
(* Bounds                                                                  *)
(***************************************************************************)
MaxContent == 2
\* number of callers running operations concurrently on one Client
NumCallers == 2

(***************************************************************************)
(* Commands and responses                                                  *)
(***************************************************************************)
CmdPing ==
    <<122, 80, 73, 78, 71, 0>>
CmdVersion ==
    <<122, 86, 69, 82, 83, 73, 79, 78, 0>>
CmdReload ==
    <<122, 82, 69, 76, 79, 65, 68, 0>>
CmdInstream ==
    <<122, 73, 78, 83, 84, 82, 69, 65, 77, 0>>
CmdStats ==
    <<122, 83, 84, 65, 84, 83, 0>>
CmdVersionCommands ==
    <<110, 86, 69, 82, 83, 73, 79, 78, 67, 79, 77, 77, 65, 78, 68, 83, 10>>
CmdShutdown ==
    <<122, 83, 72, 85, 84, 68, 79, 87, 78, 0>>

RespPing ==
    <<80, 79, 78, 71>>
RespReload ==
    <<82, 69, 76, 79, 65, 68, 73, 78, 71>>
RespScan ==
    <<115, 116, 114, 101, 97, 109, 58, 32, 79, 75>>
RespErrUnknownCommand ==
    <<85, 78, 75, 78, 79, 87, 78, 32, 67, 79, 77, 77, 65, 78, 68>>
RespErrScanFileSizeLimitExceeded ==
    <<73, 78, 83, 84, 82, 69, 65, 77, 32, 115, 105, 122, 101, 32, 108, 105,
      109, 105, 116, 32, 101, 120, 99, 101, 101, 100, 101, 100, 46, 32, 69,
      82, 82, 79, 82>>

\* "stream: " and "FOUND", the literals of parseResponse
StreamPrefix ==
    <<115, 116, 114, 101, 97, 109, 58, 32>>
FoundSuffix ==
    <<70, 79, 85, 78, 68>>

FixedOps == {"Ping", "Version", "Reload", "Stats", "VersionCommands", "Shutdown"}
Ops == FixedOps \cup {"InStream"}

CommandOf(o) ==
    CASE o = "Ping" -> CmdPing
      [] o = "Version" -> CmdVersion
      [] o = "Reload" -> CmdReload
      [] o = "Stats" -> CmdStats
      [] o = "VersionCommands" -> CmdVersionCommands
      [] o = "Shutdown" -> CmdShutdown
      [] o = "InStream" -> CmdInstream

(***************************************************************************)
(* Errors: a message tag and the set of targets errors.Is / errors.As find *)
(* in the chain.  fmt.Errorf("...%w", e) keeps the chain of e; wrapping a  *)
(* nil error gives an error with an empty chain.                           *)
(***************************************************************************)
NilErr == [msg |-> "nil", is |-> {}]
ErrUnknownCommand == [msg |-> "unknown command", is |-> {"ErrUnknownCommand"}]
ErrUnexpectedResponse ==
    [msg |-> "unexpected response from clamav", is |-> {"ErrUnexpectedResponse"}]
ErrScanFileSizeLimitExceeded ==
    [msg |-> "size limit exceeded", is |-> {"ErrScanFileSizeLimitExceeded"}]
ErrVirusFound ==
    [msg |-> "file contains potential virus", is |-> {"ErrVirusFound"}]
\* a transport error of package net (dial, read, write, timeout)
NetOpError == [msg |-> "net.OpError", is |-> {"net.Error"}]
\* the error of a failing content reader
ReaderError == [msg |-> "reader error", is |-> {"reader"}]

Errorf(m, e) == [msg |-> m, is |-> e.is]
ErrorsIs(e, target) == target.is \subseteq e.is /\ target.is # {}
isNetError(e) == "net.Error" \in e.is

NilBytes == [nil |-> TRUE, bytes |-> <<>>]
Bytes(s) == [nil |-> FALSE, bytes |-> s]

(***************************************************************************)
(* Byte-string functions of package bytes                                  *)
(***************************************************************************)
HasPrefix(s, p) == Len(s) >= Len(p) /\ SubSeq(s, 1, Len(p)) = p
HasSuffix(s, p) == Len(s) >= Len(p) /\ SubSeq(s, Len(s) - Len(p) + 1, Len(s)) = p
TrimSuffix(s, p) == IF HasSuffix(s, p) THEN SubSeq(s, 1, Len(s) - Len(p)) ELSE s
ToLower(b) == IF b \in 65..90 THEN b + 32 ELSE b
EqualFold(s, t) ==
    Len(s) = Len(t) /\ \A i \in 1..Len(s) : ToLower(s[i]) = ToLower(t[i])
\* first index of byte b in s, 0 when absent
IndexByte(s, b) ==
    IF \E i \in 1..Len(s) : s[i] = b
    THEN CHOOSE i \in 1..Len(s) : s[i] = b /\ \A j \in 1..(i - 1) : s[j] # b
    ELSE 0

(***************************************************************************)
(* int64 sizes and the 4-byte length prefix                                *)
(***************************************************************************)
Int64(h, l) == [hi |-> h, lo |-> l]
SizeOfLen(n) == Int64(0, n)
MaxUint32 == Int64(65535, 65535)
Positive(s) == s.hi > 0 \/ (s.hi = 0 /\ s.lo > 0)
LessEq(s, t) == s.hi < t.hi \/ (s.hi = t.hi /\ s.lo <= t.lo)
\* the check without the upper limit: size > 0
ValidSize_NoUpperLimit(s) == Positive(s)
\* size > 0 && size <= 4294967295
ValidSize(s) == Positive(s) /\ LessEq(s, MaxUint32)
\* uint32(size): the low 32 bits
Uint32(s) == Int64(s.hi % 65536, s.lo)
\* binary.BigEndian.PutUint32
PutUint32(v) == <<v.hi \div 256, v.hi % 256, v.lo \div 256, v.lo % 256>>
EndOfTransfer == <<0, 0, 0, 0>>

(***************************************************************************)
(* readResponse and parseResponse                                          *)
(***************************************************************************)
\* the delimiter readResponse reads up to
ReadDelim == 0

\* readResponse returning what it read with the delimiter left in place
readResponse_EndOfStreamIsError(in, c) ==
    LET i == IndexByte(in, ReadDelim)
        got == IF i > 0 THEN {SubSeq(in, 1, i)} ELSE {}
    IN  {[resp |-> Bytes(TrimSuffix(r, <<ReadDelim>>)), err |-> NilErr] : r \in got}
        \cup (IF c = "fault" \/ (c = "peerClosed" /\ i = 0)
              THEN {[resp |-> NilBytes, err |-> Errorf("error while reading response", NetOpError)]}
              ELSE {})

readResponse_NoTrim(in, c) ==
    LET i == IndexByte(in, ReadDelim)
        got == IF i > 0 THEN {SubSeq(in, 1, i)}
               ELSE IF c = "peerClosed" THEN {in}
               ELSE {}
    IN  {[resp |-> Bytes(r), err |-> NilErr] : r \in got}
        \cup (IF c = "fault"
              THEN {[resp |-> NilBytes, err |-> Errorf("error while reading response", NetOpError)]}
              ELSE {})

\* The results readResponse can give for what the daemon wrote so far and
\* the state of the session; the empty set when the read blocks.
readResponse(in, c) ==
    LET i == IndexByte(in, ReadDelim)
        got == IF i > 0 THEN {SubSeq(in, 1, i)}
               ELSE IF c = "peerClosed" THEN {in}
               ELSE {}
    IN  {[resp |-> Bytes(TrimSuffix(r, <<ReadDelim>>)), err |-> NilErr] : r \in got}
        \cup (IF c = "fault"
              THEN {[resp |-> NilBytes, err |-> Errorf("error while reading response", NetOpError)]}
              ELSE {})

\* parseResponse comparing the size-limit message byte for byte
parseResponse_ExactSizeLimit(msg) ==
    IF msg = RespErrScanFileSizeLimitExceeded THEN ErrScanFileSizeLimitExceeded
    ELSE IF HasPrefix(msg, StreamPrefix) /\ HasSuffix(msg, FoundSuffix) THEN ErrVirusFound
    ELSE IF msg = RespErrUnknownCommand THEN ErrUnknownCommand
    ELSE NilErr

parseResponse(msg) ==
    IF EqualFold(msg, RespErrScanFileSizeLimitExceeded) THEN ErrScanFileSizeLimitExceeded
    ELSE IF HasPrefix(msg, StreamPrefix) /\ HasSuffix(msg, FoundSuffix) THEN ErrVirusFound
    ELSE IF msg = RespErrUnknownCommand THEN ErrUnknownCommand
    ELSE NilErr

(***************************************************************************)
(* Inputs                                                                  *)
(***************************************************************************)
ContentBytes == {65}
RECURSIVE SeqsUpTo(_, _)
SeqsUpTo(S, n) ==
    IF n = 0 THEN {<<>>}
    ELSE LET shorter == SeqsUpTo(S, n - 1)
         IN  shorter \cup {Append(s, b) : s \in shorter, b \in S}
Contents == SeqsUpTo(ContentBytes, MaxContent)
Sizes ==
    {SizeOfLen(n) : n \in 0..MaxContent}
        \cup {Int64(-1, 65535), MaxUint32, Int64(65536, 0), Int64(1, 2),
              Int64(65536, 1)}

\* replies a daemon may write, without terminator
RespFoundEicar ==
    <<115, 116, 114, 101, 97, 109, 58, 32, 69, 105, 99, 97, 114, 32, 70, 79,
      85, 78, 68>>
RespSizeLimitLower ==
    <<105, 110, 115, 116, 114, 101, 97, 109, 32, 115, 105, 122, 101, 32, 108,
      105, 109, 105, 116, 32, 101, 120, 99, 101, 101, 100, 101, 100, 46, 32,
      101, 114, 114, 111, 114>>
\* RELOADING in lower case
RespReloadLower ==
    <<114, 101, 108, 111, 97, 100, 105, 110, 103>>
DaemonReplies ==
    {RespPing, RespReload, RespReloadLower, RespScan, RespFoundEicar,
     RespErrUnknownCommand, RespErrScanFileSizeLimitExceeded,
     RespSizeLimitLower, <<>>}
Terminators == {<<0>>, <<10>>, <<>>}

\* the callers sharing one Client
Callers == 1..NumCallers
\* NewClamavClient(addr, netw, timeout, keepalive)
ClientConfig == [network |-> "tcp", address |-> "clamd:3310"]
\* a caller that has not called yet
NoCall ==
    [pc |-> "idle", op |-> "none", sess |-> 0,
     ret |-> [payload |-> NilBytes, err |-> NilErr]]

\* no response written yet
NoResponse ==
    [code |-> 0, contentType |-> "", wwwAuthenticate |-> "",
     body |-> [status |-> "none"]]

InitClient ==
    /\ pc = "idle"
    /\ op = "none"
    /\ size = SizeOfLen(0)
    /\ content = <<>>
    /\ readerFails = FALSE
    /\ writeThrough = FALSE
    /\ ctx = "live"
    /\ cancelledAt = "never"
    /\ conn = "none"
    /\ closedAt = "never"
    /\ closes = 0
    /\ sent = <<>>
    /\ wbuf = <<>>
    /\ inbox = <<>>
    /\ err = NilErr
    /\ resp = NilBytes
    /\ ret = [payload |-> NilBytes, err |-> NilErr]
    /\ dials = 0
    /\ proc = "none"
    /\ output = <<>>
    /\ cfg = ClientConfig
    /\ calls = [p \in Callers |-> NoCall]
    /\ sessions = <<>>
    /\ http = NoResponse

Init ==
    /\ InitClient
    /\ fn = "none"
    /\ arg = <<>>
    /\ out = [applied |-> FALSE, val |-> <<>>]


(***************************************************************************)
(* The caller                                                              *)
(***************************************************************************)
\* a fixed command is called
CallFixed ==
    /\ pc = "idle"
    /\ \E o \in FixedOps : op' = o
    /\ pc' = "dial"
    /\ UNCHANGED <<size, content, readerFails, writeThrough, ctx, cancelledAt,
                   conn, closedAt, closes, sent, wbuf, inbox, err, resp, ret>>
    /\ UNCHANGED <<dials, otherVars>>

\* InStream(ctx, r, size) is called
CallInStream ==
    /\ pc = "idle"
    /\ op' = "InStream"
    /\ \E s \in Sizes : size' = s
    /\ \E c \in Contents : content' = c
    /\ \E b \in BOOLEAN : readerFails' = b
    /\ \E b \in BOOLEAN : writeThrough' = b
    /\ pc' = "dial"
    /\ UNCHANGED <<ctx, cancelledAt, conn, closedAt, closes, sent, wbuf,
                   inbox, err, resp, ret>>
    /\ UNCHANGED <<dials, otherVars>>

\* the caller's context is cancelled or its deadline expires
CtxDone ==
    /\ ctx = "live"
    /\ pc # "done"
    /\ ctx' = "done"
    /\ cancelledAt' = pc
    /\ UNCHANGED <<pc, op, size, content, readerFails, writeThrough, conn,
                   closedAt, closes, sent, wbuf, inbox, err, resp, ret>>
    /\ UNCHANGED <<dials, otherVars>>

(***************************************************************************)
(* The daemon and the transport                                            *)
(***************************************************************************)
SessionLive == conn = "open" /\ pc # "done"

\* the daemon writes its reply, with or without a terminator
DaemonReply ==
    /\ SessionLive
    /\ inbox = <<>>
    /\ \E r \in DaemonReplies, t \in Terminators :
          /\ r \o t # <<>>
          /\ inbox' = r \o t
    /\ UNCHANGED <<pc, op, size, content, readerFails, writeThrough, ctx,
                   cancelledAt, conn, closedAt, closes, sent, wbuf, err, resp,
                   ret>>
    /\ UNCHANGED <<dials, otherVars>>

\* the daemon closes the connection
DaemonClose ==
    /\ SessionLive
    /\ conn' = "peerClosed"
    /\ closedAt' = pc
    /\ UNCHANGED <<pc, op, size, content, readerFails, writeThrough, ctx,
                   cancelledAt, closes, sent, wbuf, inbox, err, resp, ret>>
    /\ UNCHANGED <<dials, otherVars>>

\* the transport fails (reset, timeout): reads and writes return an error
ConnFault ==
    /\ SessionLive
    /\ conn' = "fault"
    /\ UNCHANGED <<pc, op, size, content, readerFails, writeThrough, ctx,
                   cancelledAt, closedAt, closes, sent, wbuf, inbox, err, resp,
                   ret>>
    /\ UNCHANGED <<dials, otherVars>>

(***************************************************************************)
(* Dial, and the return of an operation that dialed                        *)
(***************************************************************************)
DialErrorMsg(o) ==
    IF o = "InStream" THEN "error while dialing" ELSE "failed to connect to clamav"

\* DialContext succeeds: the operation owns a fresh session
DialOk ==
    /\ pc = "dial"
    /\ ctx = "live"
    /\ conn' = "open"
    /\ pc' = IF op = "InStream" THEN "command" ELSE "send"
    /\ UNCHANGED <<op, size, content, readerFails, writeThrough, ctx,
                   cancelledAt, closedAt, closes, sent, wbuf, inbox, err, resp,
                   ret>>
    /\ dials' = dials + 1
    /\ UNCHANGED otherVars

\* DialFail with a second attempt after the first failure
DialFail_Retry ==
    /\ pc = "dial"
    /\ IF dials = 0
       THEN UNCHANGED <<pc, ret>>
       ELSE /\ pc' = "done"
            /\ ret' = [payload |-> NilBytes,
                       err |-> Errorf(DialErrorMsg(op), NetOpError)]
    /\ UNCHANGED <<op, size, content, readerFails, writeThrough, ctx,
                   cancelledAt, conn, closedAt, closes, sent, wbuf, inbox, err,
                   resp>>
    /\ dials' = dials + 1
    /\ UNCHANGED otherVars

\* DialContext fails (refused, timeout, context done): return, nothing to close
DialFail ==
    /\ pc = "dial"
    /\ pc' = "done"
    /\ ret' = [payload |-> NilBytes, err |-> Errorf(DialErrorMsg(op), NetOpError)]
    /\ UNCHANGED <<op, size, content, readerFails, writeThrough, ctx,
                   cancelledAt, conn, closedAt, closes, sent, wbuf, inbox, err,
                   resp>>
    /\ dials' = dials + 1
    /\ UNCHANGED otherVars

\* return p, e: the deferred conn.Close() runs
Return(p, e) ==
    /\ pc' = "done"
    /\ ret' = [payload |-> p, err |-> e]
    /\ closes' = closes + 1


(***************************************************************************)
(* Fixed commands: SendCommand and what each operation does with its       *)
(* result r = [resp, err]                                                  *)
(***************************************************************************)
\* Ping accepting PONG only
PingReply_RequiresPong(r) ==
    IF r.err # NilErr
    THEN [payload |-> NilBytes, err |-> Errorf("error while sending command", r.err)]
    ELSE IF parseResponse(r.resp.bytes) # NilErr
    THEN [payload |-> NilBytes,
          err |-> Errorf("error from clamav", parseResponse(r.resp.bytes))]
    ELSE IF r.resp.bytes # RespPing
    THEN [payload |-> NilBytes,
          err |-> Errorf("error from clamav: unexpected", ErrUnexpectedResponse)]
    ELSE [payload |-> r.resp, err |-> NilErr]

\* Ping, Version, Stats, VersionCommands: classify, return the reply
PingReply(r) ==
    IF r.err # NilErr
    THEN [payload |-> NilBytes, err |-> Errorf("error while sending command", r.err)]
    ELSE IF parseResponse(r.resp.bytes) # NilErr
    THEN [payload |-> NilBytes,
          err |-> Errorf("error from clamav", parseResponse(r.resp.bytes))]
    ELSE [payload |-> r.resp, err |-> NilErr]
VersionReply(r) ==
    IF r.err # NilErr
    THEN [payload |-> NilBytes, err |-> Errorf("error while sending command", r.err)]
    ELSE IF parseResponse(r.resp.bytes) # NilErr
    THEN [payload |-> NilBytes,
          err |-> Errorf("error from clamav", parseResponse(r.resp.bytes))]
    ELSE [payload |-> r.resp, err |-> NilErr]
StatsReply(r) ==
    IF r.err # NilErr
    THEN [payload |-> NilBytes, err |-> Errorf("error while sending command", r.err)]
    ELSE IF parseResponse(r.resp.bytes) # NilErr
    THEN [payload |-> NilBytes,
          err |-> Errorf("error from clamav", parseResponse(r.resp.bytes))]
    ELSE [payload |-> r.resp, err |-> NilErr]
VersionCommandsReply(r) ==
    IF r.err # NilErr
    THEN [payload |-> NilBytes, err |-> Errorf("error while sending command", r.err)]
    ELSE IF parseResponse(r.resp.bytes) # NilErr
    THEN [payload |-> NilBytes,
          err |-> Errorf("error from clamav", parseResponse(r.resp.bytes))]
    ELSE [payload |-> r.resp, err |-> NilErr]

\* ReloadReply without the comparison of the reply with RELOADING
ReloadReply_NoComparison(r) ==
    IF r.err # NilErr
    THEN [payload |-> NilBytes, err |-> Errorf("error while sending command", r.err)]
    ELSE IF parseResponse(r.resp.bytes) # NilErr
    THEN [payload |-> NilBytes,
          err |-> Errorf("error from clamav", parseResponse(r.resp.bytes))]
    ELSE [payload |-> NilBytes, err |-> NilErr]

\* Reload: classify, then require the reply to be RELOADING; returns an error only
ReloadReply(r) ==
    IF r.err # NilErr
    THEN [payload |-> NilBytes, err |-> Errorf("error while sending command", r.err)]
    ELSE IF parseResponse(r.resp.bytes) # NilErr
    THEN [payload |-> NilBytes,
          err |-> Errorf("error from clamav", parseResponse(r.resp.bytes))]
    ELSE IF r.resp.bytes # RespReload
    THEN [payload |-> NilBytes,
          err |-> Errorf("error from clamav: unexpected", ErrUnexpectedResponse)]
    ELSE [payload |-> NilBytes, err |-> NilErr]

\* Shutdown: the reply is dropped; returns an error only
ShutdownReply(r) ==
    IF r.err # NilErr
    THEN [payload |-> NilBytes, err |-> Errorf("error while sending command", r.err)]
    ELSE [payload |-> NilBytes, err |-> NilErr]

OpReply(o, r) ==
    CASE o = "Ping" -> PingReply(r)
      [] o = "Version" -> VersionReply(r)
      [] o = "Reload" -> ReloadReply(r)
      [] o = "Stats" -> StatsReply(r)
      [] o = "VersionCommands" -> VersionCommandsReply(r)
      [] o = "Shutdown" -> ShutdownReply(r)

\* SendCommandWrite sending the command without its terminator byte
SendCommandWrite_NoTerminator ==
    /\ pc = "send"
    /\ IF conn = "open"
       THEN /\ sent' = sent \o SubSeq(CommandOf(op), 1, Len(CommandOf(op)) - 1)
            /\ pc' = "read"
            /\ UNCHANGED <<closes, ret>>
       ELSE /\ LET r == [resp |-> NilBytes,
                         err |-> Errorf("error while flushing command", NetOpError)]
               IN  Return(OpReply(op, r).payload, OpReply(op, r).err)
            /\ UNCHANGED sent
    /\ UNCHANGED <<op, size, content, readerFails, writeThrough, ctx,
                   cancelledAt, conn, closedAt, wbuf, inbox, err, resp>>
    /\ UNCHANGED <<dials, otherVars>>

\* SendCommand: write the command and flush
SendCommandWrite ==
    /\ pc = "send"
    /\ IF conn = "open"
       THEN /\ sent' = sent \o CommandOf(op)
            /\ pc' = "read"
            /\ UNCHANGED <<closes, ret>>
       ELSE /\ LET r == [resp |-> NilBytes,
                         err |-> Errorf("error while flushing command", NetOpError)]
               IN  Return(OpReply(op, r).payload, OpReply(op, r).err)
            /\ UNCHANGED sent
    /\ UNCHANGED <<op, size, content, readerFails, writeThrough, ctx,
                   cancelledAt, conn, closedAt, wbuf, inbox, err, resp>>
    /\ UNCHANGED <<dials, otherVars>>

\* SendCommand: read the reply; the operation classifies it and returns
SendCommandRead ==
    /\ pc = "read"
    /\ \E r \in readResponse(inbox, conn) :
          /\ resp' = r.resp
          /\ Return(OpReply(op, r).payload, OpReply(op, r).err)
    /\ UNCHANGED <<op, size, content, readerFails, writeThrough, ctx,
                   cancelledAt, conn, closedAt, sent, wbuf, inbox, err>>
    /\ UNCHANGED <<dials, otherVars>>

(***************************************************************************)
(* InStream                                                                *)
(***************************************************************************)
\* InStreamCommand with the validation failure returning before the deferred
\* Close is in place
InStreamCommand_NoCloseOnInvalid ==
    /\ pc = "command"
    /\ IF conn # "open"
       THEN /\ Return(NilBytes, Errorf("error while flushing command", NetOpError))
            /\ UNCHANGED sent
       ELSE /\ sent' = sent \o CmdInstream
            /\ IF ValidSize(size)
               THEN pc' = "length" /\ UNCHANGED <<closes, ret>>
               ELSE /\ pc' = "done"
                    /\ ret' = [payload |-> NilBytes,
                               err |-> [msg |-> "file size exceeds maximum allowed size",
                                        is |-> {}]]
                    /\ UNCHANGED closes
    /\ UNCHANGED <<op, size, content, readerFails, writeThrough, ctx,
                   cancelledAt, conn, closedAt, wbuf, inbox, err, resp>>
    /\ UNCHANGED <<dials, otherVars>>

\* write and flush the start command, then validate the declared size
InStreamCommand ==
    /\ pc = "command"
    /\ IF conn # "open"
       THEN /\ Return(NilBytes, Errorf("error while flushing command", NetOpError))
            /\ UNCHANGED sent
       ELSE /\ sent' = sent \o CmdInstream
            /\ IF ValidSize(size)
               THEN pc' = "length" /\ UNCHANGED <<closes, ret>>
               ELSE Return(NilBytes,
                           [msg |-> "file size exceeds maximum allowed size", is |-> {}])
    /\ UNCHANGED <<op, size, content, readerFails, writeThrough, ctx,
                   cancelledAt, conn, closedAt, wbuf, inbox, err, resp>>
    /\ UNCHANGED <<dials, otherVars>>

\* write and flush the 4-byte length
InStreamLength ==
    /\ pc = "length"
    /\ IF conn # "open"
       THEN /\ Return(NilBytes, Errorf("error while flushing data length", NetOpError))
            /\ UNCHANGED sent
       ELSE /\ sent' = sent \o PutUint32(Uint32(size))
            /\ pc' = "copy"
            /\ UNCHANGED <<closes, ret>>
    /\ UNCHANGED <<op, size, content, readerFails, writeThrough, ctx,
                   cancelledAt, conn, closedAt, wbuf, inbox, err, resp>>
    /\ UNCHANGED <<dials, otherVars>>

\* reader.WriteTo(writer): everything the reader yields goes to the writer,
\* which passes it on to the session (writeThrough) or keeps it buffered
InStreamCopy ==
    /\ pc = "copy"
    /\ IF writeThrough /\ content # <<>> /\ conn # "open"
       THEN /\ err' = NetOpError
            /\ pc' = "copyfailed"
            /\ UNCHANGED <<sent, wbuf>>
       ELSE /\ IF writeThrough
               THEN sent' = sent \o content /\ UNCHANGED wbuf
               ELSE wbuf' = wbuf \o content /\ UNCHANGED sent
            /\ IF readerFails
               THEN err' = ReaderError /\ pc' = "copyfailed"
               ELSE pc' = "end" /\ UNCHANGED err
    /\ UNCHANGED <<op, size, content, readerFails, writeThrough, ctx,
                   cancelledAt, conn, closedAt, closes, inbox, resp, ret>>
    /\ UNCHANGED <<dials, otherVars>>

\* InStreamCopyFailed flushing what the writer holds and the end-of-transfer
\* marker before it reads the reply
InStreamCopyFailed_MarkerFirst ==
    /\ pc = "copyfailed"
    /\ sent' = sent \o wbuf \o EndOfTransfer
    /\ \E r \in readResponse(inbox, conn) :
          /\ resp' = r.resp
          /\ IF r.err # NilErr
             THEN Return(NilBytes, Errorf("error while streaming content", err))
             ELSE LET e == parseResponse(r.resp.bytes)
                  IN  IF e # NilErr
                      THEN IF ErrorsIs(e, ErrScanFileSizeLimitExceeded)
                           THEN Return(NilBytes, e)
                           ELSE Return(NilBytes, Errorf("error from clamav", e))
                      ELSE Return(r.resp, Errorf("error while streaming content", e))
    /\ UNCHANGED <<op, size, content, readerFails, writeThrough, ctx,
                   cancelledAt, conn, closedAt, wbuf, inbox, err>>
    /\ UNCHANGED <<dials, otherVars>>

\* the copy failed: read a reply the daemon may have sent and classify it
InStreamCopyFailed ==
    /\ pc = "copyfailed"
    /\ \E r \in readResponse(inbox, conn) :
          /\ resp' = r.resp
          /\ IF r.err # NilErr
             THEN Return(NilBytes, Errorf("error while streaming content", err))
             ELSE LET e == parseResponse(r.resp.bytes)
                  IN  IF e # NilErr
                      THEN IF ErrorsIs(e, ErrScanFileSizeLimitExceeded)
                           THEN Return(NilBytes, e)
                           ELSE Return(NilBytes, Errorf("error from clamav", e))
                      ELSE Return(r.resp, Errorf("error while streaming content", e))
    /\ UNCHANGED <<op, size, content, readerFails, writeThrough, ctx,
                   cancelledAt, conn, closedAt, sent, wbuf, inbox, err>>
    /\ UNCHANGED <<dials, otherVars>>

\* write the four zero bytes and flush what the writer holds
InStreamEndOfTransfer ==
    /\ pc = "end"
    /\ IF conn # "open"
       THEN /\ Return(NilBytes,
                      Errorf("error while flushing end of transfer signal", NetOpError))
            /\ UNCHANGED <<sent, wbuf>>
       ELSE /\ sent' = sent \o wbuf \o EndOfTransfer
            /\ wbuf' = <<>>
            /\ pc' = "reply"
            /\ UNCHANGED <<closes, ret>>
    /\ UNCHANGED <<op, size, content, readerFails, writeThrough, ctx,
                   cancelledAt, conn, closedAt, inbox, err, resp>>
    /\ UNCHANGED <<dials, otherVars>>

\* read the reply, classify it and return
InStreamReply ==
    /\ pc = "reply"
    /\ \E r \in readResponse(inbox, conn) :
          /\ resp' = r.resp
          /\ IF r.err # NilErr
             THEN Return(NilBytes, r.err)
             ELSE LET e == parseResponse(r.resp.bytes)
                  IN  IF e # NilErr
                      THEN IF ErrorsIs(e, ErrVirusFound)
                           THEN Return(r.resp, e)
                           ELSE Return(NilBytes, Errorf("error from clamav", e))
                      ELSE Return(r.resp, NilErr)
    /\ UNCHANGED <<op, size, content, readerFails, writeThrough, ctx,
                   cancelledAt, conn, closedAt, sent, wbuf, inbox, err>>
    /\ UNCHANGED <<dials, otherVars>>

(***************************************************************************)
(* FreshClam: the update utility run as a child process                    *)
(***************************************************************************)
PhraseDatabaseUpdated ==
    <<68, 97, 116, 97, 98, 97, 115, 101, 32, 117, 112, 100, 97, 116, 101, 100>>
PhraseUpToDate ==
    <<117, 112, 32, 116, 111, 32, 100, 97, 116, 101>>
PhraseOutdated ==
    <<89, 111, 117, 114, 32, 67, 108, 97, 109, 65, 86, 32, 105, 110, 115, 116,
      97, 108, 108, 97, 116, 105, 111, 110, 32, 105, 115, 32, 79, 85, 84, 68,
      65, 84, 69, 68>>

\* strings.Contains
Contains(s, sub) ==
    \E i \in 0..(Len(s) - Len(sub)) : SubSeq(s, i + 1, i + Len(sub)) = sub

\* the error of cmd.CombinedOutput for each end of the child, and ctx.Err()
ExitError == [msg |-> "exit status 1", is |-> {"exec.ExitError"}]
KilledError == [msg |-> "signal: killed", is |-> {"exec.ExitError"}]
StartError == [msg |-> "exec: not started", is |-> {"exec.Error"}]
ContextCanceled == [msg |-> "context canceled", is |-> {"context.Canceled"}]
RunError(p) ==
    CASE p = "exit0" -> NilErr
      [] p = "exit1" -> ExitError
      [] p = "killed" -> KilledError
      [] p = "notstarted" -> StartError
CtxErr(c) == IF c = "done" THEN ContextCanceled ELSE NilErr
\* the bytes of the output buffer: nil when nothing was written
OutputBytes(o) == IF o = <<>> THEN NilBytes ELSE Bytes(o)

\* FreshClam looking for the success phrases before looking at the context
FreshClam_PhrasesFirst(o, runErr, ctxErr) ==
    IF runErr # NilErr
    THEN IF \/ Contains(o, PhraseDatabaseUpdated)
            \/ Contains(o, PhraseUpToDate)
            \/ Contains(o, PhraseOutdated)
         THEN [payload |-> OutputBytes(o), err |-> NilErr]
         ELSE IF ctxErr # NilErr
         THEN [payload |-> NilBytes, err |-> Errorf("freshclam command cancelled", ctxErr)]
         ELSE [payload |-> OutputBytes(o),
               err |-> Errorf("freshclam command failed", runErr)]
    ELSE [payload |-> OutputBytes(o), err |-> NilErr]

\* what FreshClam returns for the output and error of CombinedOutput
FreshClam(o, runErr, ctxErr) ==
    IF runErr # NilErr
    THEN IF ctxErr # NilErr
         THEN [payload |-> NilBytes, err |-> Errorf("freshclam command cancelled", ctxErr)]
         ELSE IF \/ Contains(o, PhraseDatabaseUpdated)
                 \/ Contains(o, PhraseUpToDate)
                 \/ Contains(o, PhraseOutdated)
         THEN [payload |-> OutputBytes(o), err |-> NilErr]
         ELSE [payload |-> OutputBytes(o),
               err |-> Errorf("freshclam command failed", runErr)]
    ELSE [payload |-> OutputBytes(o), err |-> NilErr]

\* what the utility may print
OutUpdated ==
    <<100, 97, 105, 108, 121, 46, 99, 118, 100, 58, 32, 68, 97, 116, 97, 98,
      97, 115, 101, 32, 117, 112, 100, 97, 116, 101, 100, 10>>
OutUpToDate ==
    <<109, 97, 105, 110, 46, 99, 118, 100, 32, 100, 97, 116, 97, 98, 97, 115,
      101, 32, 105, 115, 32, 117, 112, 32, 116, 111, 32, 100, 97, 116, 101, 10>>
OutOutdated ==
    <<87, 65, 82, 78, 73, 78, 71, 58, 32, 89, 111, 117, 114, 32, 67, 108, 97,
      109, 65, 86, 32, 105, 110, 115, 116, 97, 108, 108, 97, 116, 105, 111, 110,
      32, 105, 115, 32, 79, 85, 84, 68, 65, 84, 69, 68, 33, 10>>
OutLowerCase ==
    <<100, 97, 116, 97, 98, 97, 115, 101, 32, 117, 112, 100, 97, 116, 101,
      100, 10>>
OutCapitalised ==
    <<85, 112, 32, 84, 111, 32, 68, 97, 116, 101, 10>>
OutError ==
    <<69, 82, 82, 79, 82, 58, 32, 67, 97, 110, 39, 116, 32, 111, 112, 101,
      110, 32, 108, 111, 103, 10>>
OutTruncated ==
    <<109, 97, 105, 110, 46, 99, 118, 100, 32, 100, 97, 116, 97, 98, 97, 115,
      101, 32, 105, 115, 32, 117, 112, 32, 116, 111, 32, 100, 97, 116>>
FreshOutputs ==
    {OutUpdated, OutUpToDate, OutOutdated, OutLowerCase, OutCapitalised,
     OutError, OutTruncated}

\* FreshClam(ctx) is called
CallFreshClam ==
    /\ pc = "idle"
    /\ op' = "FreshClam"
    /\ pc' = "start"
    /\ UNCHANGED <<size, content, readerFails, writeThrough, ctx, cancelledAt,
                   conn, closedAt, closes, sent, wbuf, inbox, err, resp, ret,
                   dials, childVars, fnVars, concVars, http>>

\* CombinedOutput starts the child; when it cannot (the context is done, the
\* executable cannot be run) it returns the error and FreshClam returns
FreshClamStart ==
    /\ pc = "start"
    /\ \/ /\ ctx = "live"
          /\ proc' = "running"
          /\ pc' = "wait"
          /\ UNCHANGED ret
       \/ /\ proc' = "notstarted"
          /\ pc' = "done"
          /\ ret' = FreshClam(output, RunError("notstarted"), CtxErr(ctx))
    /\ UNCHANGED <<op, size, content, readerFails, writeThrough, ctx,
                   cancelledAt, conn, closedAt, closes, sent, wbuf, inbox, err,
                   resp, dials, output, fnVars, concVars, http>>

\* the child prints to stdout or stderr
ChildWrites ==
    /\ proc = "running"
    /\ output = <<>>
    /\ \E o \in FreshOutputs : output' = o
    /\ UNCHANGED <<pc, op, size, content, readerFails, writeThrough, ctx,
                   cancelledAt, conn, closedAt, closes, sent, wbuf, inbox, err,
                   resp, ret, dials, proc, fnVars, concVars, http>>

\* the child exits, with status zero or not
ChildExits ==
    /\ proc = "running"
    /\ \E p \in {"exit0", "exit1"} : proc' = p
    /\ UNCHANGED <<pc, op, size, content, readerFails, writeThrough, ctx,
                   cancelledAt, conn, closedAt, closes, sent, wbuf, inbox, err,
                   resp, ret, dials, output, fnVars, concVars, http>>

\* exec.CommandContext kills the child once the context is done
ChildKilled ==
    /\ proc = "running"
    /\ ctx = "done"
    /\ proc' = "killed"
    /\ UNCHANGED <<pc, op, size, content, readerFails, writeThrough, ctx,
                   cancelledAt, conn, closedAt, closes, sent, wbuf, inbox, err,
                   resp, ret, dials, output, fnVars, concVars, http>>

\* FreshClam returning as soon as the child is started, without waiting
FreshClamWait_NoWait ==
    /\ pc = "wait"
    /\ pc' = "done"
    /\ ret' = FreshClam(output, NilErr, CtxErr(ctx))
    /\ UNCHANGED <<op, size, content, readerFails, writeThrough, ctx,
                   cancelledAt, conn, closedAt, closes, sent, wbuf, inbox, err,
                   resp, dials, childVars, fnVars, concVars, http>>

\* CombinedOutput returns once the child has ended; FreshClam returns
FreshClamWait ==
    /\ pc = "wait"
    /\ proc \in {"exit0", "exit1", "killed"}
    /\ pc' = "done"
    /\ ret' = FreshClam(output, RunError(proc), CtxErr(ctx))
    /\ UNCHANGED <<op, size, content, readerFails, writeThrough, ctx,
                   cancelledAt, conn, closedAt, closes, sent, wbuf, inbox, err,
                   resp, dials, childVars, fnVars, concVars, http>>

(***************************************************************************)
(* The HTTP handlers of /scan and /freshclam.  A response is the status    *)
(* code, the two headers the handlers set, and the value that is marshalled *)
(* into the body.  A text of a body is one of: a literal, a literal        *)
(* followed by the text of an error, or bytes taken over from the client.  *)
(***************************************************************************)
\* strings.TrimRight and strings.TrimLeft: drop the trailing (leading) bytes
\* that are in the cutset
RECURSIVE TrimRight(_, _)
TrimRight(s, cutset) ==
    IF s # <<>> /\ s[Len(s)] \in cutset
    THEN TrimRight(SubSeq(s, 1, Len(s) - 1), cutset)
    ELSE s
RECURSIVE TrimLeft(_, _)
TrimLeft(s, cutset) ==
    IF s # <<>> /\ s[1] \in cutset
    THEN TrimLeft(SubSeq(s, 2, Len(s)), cutset)
    ELSE s
\* the bytes of " FOUND" and of "stream: "
CutsetFound == {32, 70, 79, 85, 78, 68}
CutsetStream == {115, 116, 114, 101, 97, 109, 58, 32}

parseSignature(msg) == TrimLeft(TrimRight(msg, CutsetFound), CutsetStream)

StatusOK == 200
StatusBadRequest == 400
StatusUnauthorized == 401
StatusInternalServerError == 500
StatusBadGateway == 502
ContentTypeApplicationJSON == "application/json"

Text(lit, e, raw) == [lit |-> lit, err |-> e, raw |-> raw]
Response(code, body) ==
    [code |-> code, contentType |-> ContentTypeApplicationJSON,
     wwwAuthenticate |-> "", body |-> body]

ErrFormFile == [msg |-> "failed to parse file", is |-> {"ErrFormFile"}]
ErrOpenFileHeaders ==
    [msg |-> "failed to open multipart file headers", is |-> {"ErrOpenFileHeaders"}]
ErrUnknownResponse ==
    [msg |-> "unknown response from clamav", is |-> {"ErrUnknownResponse"}]

NewErrorResponse(msg) == [status |-> "error", msg |-> msg]

\* SetErrorResponse for a non-nil error
SetErrorResponse(e) ==
    IF isNetError(e)
    THEN Response(StatusBadGateway,
                  NewErrorResponse(Text("something wrong happened while communicating with clamav",
                                        NilErr, <<>>)))
    ELSE IF ErrorsIs(e, ErrFormFile) \/ ErrorsIs(e, ErrOpenFileHeaders)
    THEN Response(StatusBadRequest, NewErrorResponse(Text("bad request: ", e, <<>>)))
    ELSE IF ErrorsIs(e, ErrUnknownCommand)
    THEN Response(StatusInternalServerError,
                  NewErrorResponse(Text("unknown command sent to clamav", NilErr, <<>>)))
    ELSE IF ErrorsIs(e, ErrUnknownResponse)
    THEN Response(StatusInternalServerError,
                  NewErrorResponse(Text("unknown response from clamav", NilErr, <<>>)))
    ELSE IF ErrorsIs(e, ErrUnexpectedResponse)
    THEN Response(StatusInternalServerError,
                  NewErrorResponse(Text("unexpected response from clamav", NilErr, <<>>)))
    ELSE IF ErrorsIs(e, ErrScanFileSizeLimitExceeded)
    THEN Response(StatusInternalServerError, NewErrorResponse(Text("clamav: ", e, <<>>)))
    ELSE Response(StatusInternalServerError, NewErrorResponse(Text("", e, <<>>)))

\* Handler.InStream from the return of h.Clamav.InStream on; r is what the
\* client returned
InStreamHandler(r) ==
    IF r.err # NilErr
    THEN IF ErrorsIs(r.err, ErrVirusFound)
         THEN Response(StatusOK,
                       [status |-> "error",
                        msg |-> Text(ErrVirusFound.msg, NilErr, <<>>),
                        signature |-> parseSignature(r.payload.bytes),
                        virus_found |-> TRUE])
         ELSE SetErrorResponse(r.err)
    ELSE Response(StatusOK,
                  [status |-> "noerror",
                   msg |-> Text("", NilErr, RespScan),
                   signature |-> <<>>,
                   virus_found |-> FALSE])

\* the Output field of FreshClamResponse: string(output), left out of the
\* body when empty (omitempty)
OutputField(p) == [present |-> p.bytes # <<>>, text |-> p.bytes]

\* Handler.FreshClam answering a failed update without the output
FreshClamHandler_NoOutputOnError(r) ==
    IF r.err # NilErr
    THEN Response(StatusInternalServerError,
                  [status |-> "error", message |-> "freshclam update failed",
                   output |-> OutputField(NilBytes)])
    ELSE Response(StatusOK,
                  [status |-> "success",
                   message |-> "virus definitions updated successfully",
                   output |-> OutputField(r.payload)])

\* Handler.FreshClam; r is what the client returned
FreshClamHandler(r) ==
    IF r.err # NilErr
    THEN Response(StatusInternalServerError,
                  [status |-> "error", message |-> "freshclam update failed",
                   output |-> OutputField(r.payload)])
    ELSE Response(StatusOK,
                  [status |-> "success",
                   message |-> "virus definitions updated successfully",
                   output |-> OutputField(r.payload)])

\* the /scan handler answers, the multipart file having been read
HandlerInStream ==
    /\ pc = "done"
    /\ op = "InStream"
    /\ http = NoResponse
    /\ http' = InStreamHandler(ret)
    /\ UNCHANGED <<pc, op, size, content, readerFails, writeThrough, ctx,
                   cancelledAt, conn, closedAt, closes, sent, wbuf, inbox, err,
                   resp, ret, dials, childVars, fnVars, concVars>>

\* the /freshclam handler answers
HandlerFreshClam ==
    /\ pc = "done"
    /\ op = "FreshClam"
    /\ http = NoResponse
    /\ http' = FreshClamHandler(ret)
    /\ UNCHANGED <<pc, op, size, content, readerFails, writeThrough, ctx,
                   cancelledAt, conn, closedAt, closes, sent, wbuf, inbox, err,
                   resp, ret, dials, childVars, fnVars, concVars>>

Next ==
    \/ CallFixed
    \/ CallInStream
    \/ CtxDone
    \/ DaemonReply
    \/ DaemonClose
    \/ ConnFault
    \/ DialOk
    \/ DialFail
    \/ SendCommandWrite
    \/ SendCommandRead
    \/ InStreamCommand
    \/ InStreamLength
    \/ InStreamCopy
    \/ InStreamCopyFailed
    \/ InStreamEndOfTransfer
    \/ InStreamReply
    \/ CallFreshClam
    \/ FreshClamStart
    \/ ChildWrites
    \/ ChildExits
    \/ ChildKilled
    \/ FreshClamWait
    \/ HandlerInStream
    \/ HandlerFreshClam

Spec == Init /\ [][Next]_vars

TypeOK ==
    /\ pc \in {"idle", "dial", "send", "read", "command", "length", "copy",
               "copyfailed", "end", "reply", "start", "wait", "done"}
    /\ op \in Ops \cup {"FreshClam", "none"}
    /\ proc \in {"none", "running", "exit0", "exit1", "killed", "notstarted"}
    /\ conn \in {"none", "open", "peerClosed", "fault"}
    /\ ctx \in {"live", "done"}
    /\ closes \in 0..2


(***************************************************************************)
(* Properties                                                              *)
(***************************************************************************)
Returned == pc = "done"
Dialed == conn # "none"
\* the terminator byte a command is sent with
TerminatorOf(o) == CommandOf(o)[Len(CommandOf(o))]
\* the content reader yields as many bytes as the caller declared
DeclaredSizeMatches == size = SizeOfLen(Len(content)) /\ content # <<>>
\* the steps of an operation that read from or write to the session
SessionIOSteps == {"send", "read", "command", "length", "end", "reply"}

\* C1: an operation that dialed has closed its session exactly once when it
\* returns, whatever the exit path, and not before; an operation whose dial
\* failed closes nothing.
C1_ClosedExactlyOnce ==
    /\ Returned => closes = (IF Dialed THEN 1 ELSE 0)
    /\ ~Returned => closes = 0

\* an InStream call that dialed, failed validation and returned
C1_Witness ==
    /\ Returned
    /\ op = "InStream"
    /\ Dialed
    /\ ~ValidSize(size)
    /\ ret.err.msg = "file size exceeds maximum allowed size"
    /\ closes = 1

\* C2: an InStream call with a declared size that is not in 1..4294967295
\* writes no byte to the transport: the daemon receives nothing.
C2_InvalidSizeWritesNothing ==
    (op = "InStream" /\ ~ValidSize(size)) => sent = <<>>

\* C3: whenever InStream returns an error that is VirusFound, the payload it
\* returns is the reply it read, trimmed of the terminator only.
C3_VirusFoundCarriesReply ==
    (Returned /\ op = "InStream" /\ ErrorsIs(ret.err, ErrVirusFound))
        => (~ret.payload.nil /\ ret.payload = resp)

\* C4: InStream returns a payload together with an error only when the error
\* is VirusFound; with every other error the payload is nil.
C4_PayloadOnlyWithVirusFound ==
    (Returned /\ op = "InStream" /\ ret.err # NilErr
        /\ ~ErrorsIs(ret.err, ErrVirusFound))
        => ret.payload.nil

\* C5: whatever the command in flight, an operation that read the size-limit
\* message, in any letter case, as its reply fails with SizeLimitExceeded.
C5_SizeLimitForEveryCommand ==
    (Returned /\ ~resp.nil /\ EqualFold(resp.bytes, RespErrScanFileSizeLimitExceeded))
        => ErrorsIs(ret.err, ErrScanFileSizeLimitExceeded)

\* C6: when the daemon has sent the size-limit reply and closes the connection
\* while the content (of the declared size) is being uploaded, InStream
\* returns SizeLimitExceeded.
C6_SizeLimitBeatsCopyFailure ==
    (Returned /\ op = "InStream" /\ DeclaredSizeMatches
        /\ closedAt = "copy" /\ conn = "peerClosed"
        /\ inbox = RespErrScanFileSizeLimitExceeded \o <<0>>)
        => ErrorsIs(ret.err, ErrScanFileSizeLimitExceeded)

\* C7: when the daemon closes the connection while the content (of the
\* declared size, from a reader that does not fail) is being uploaded and has
\* sent no reply, InStream returns a NetworkError.
C7_CloseWithoutReplyIsNetworkError ==
    (Returned /\ op = "InStream" /\ DeclaredSizeMatches /\ ~readerFails
        /\ closedAt = "copy" /\ conn = "peerClosed" /\ inbox = <<>>)
        => isNetError(ret.err)

\* C8: once the context is done, a read or write on the established session
\* does not complete normally: the step ends the operation with a NetworkError.
C8_ContextDoneAbortsIO ==
    [][(ctx = "done" /\ Dialed /\ pc \in SessionIOSteps /\ pc' # pc)
          => (pc' = "done" /\ isNetError(ret'.err))]_vars

\* C9: when a scan with declared size n reaches the reply read after the
\* end-of-transfer marker, the daemon has received the start command, the
\* 4-byte big-endian encoding of n, exactly n content bytes and four zero bytes.
C9_WireFormat ==
    pc = "reply" =>
        LET n == Len(sent) - Len(CmdInstream) - 8
        IN  /\ n >= 0
            /\ SubSeq(sent, 1, 10) = CmdInstream
            /\ Int64(sent[11] * 256 + sent[12], sent[13] * 256 + sent[14]) = size
            /\ size = SizeOfLen(n)
            /\ SubSeq(sent, 15 + n, Len(sent)) = <<0, 0, 0, 0>>

\* C10: the Response a fixed command returns never ends with the terminator
\* byte of that command (null for the z commands, newline for nVERSIONCOMMANDS).
C10_ResponseTrimmedOfOwnTerminator ==
    (Returned /\ op \in FixedOps /\ ~ret.payload.nil /\ ret.payload.bytes # <<>>)
        => ret.payload.bytes[Len(ret.payload.bytes)] # TerminatorOf(op)

\* the reply is one parseResponse classifies as a known error: the size-limit
\* message in any letter case, a detection, or the unknown-command message
KnownErrorReply(b) ==
    \/ EqualFold(b, RespErrScanFileSizeLimitExceeded)
    \/ (HasPrefix(b, StreamPrefix) /\ HasSuffix(b, FoundSuffix))
    \/ b = RespErrUnknownCommand

\* C11 (as stated): Reload fails with UnexpectedResponse for every reply it
\* read that differs from RELOADING.
C11_AnyOtherReplyIsUnexpected ==
    (Returned /\ op = "Reload" /\ ~resp.nil /\ resp.bytes # RespReload)
        => ErrorsIs(ret.err, ErrUnexpectedResponse)

\* C11 (amended): Reload fails with UnexpectedResponse for every reply it read
\* that differs from RELOADING and is not classified as a known error; a reply
\* classified as a known error fails with that error kind, not with
\* UnexpectedResponse.
C11_UnclassifiedOtherReplyIsUnexpected ==
    (Returned /\ op = "Reload" /\ ~resp.nil /\ resp.bytes # RespReload)
        => /\ ret.err # NilErr
           /\ ErrorsIs(ret.err, ErrUnexpectedResponse) <=> ~KnownErrorReply(resp.bytes)

\* Reload read the well-formed reply PONG and returned UnexpectedResponse
C11_Witness ==
    /\ Returned
    /\ op = "Reload"
    /\ resp = Bytes(RespPing)
    /\ ErrorsIs(ret.err, ErrUnexpectedResponse)

(***************************************************************************)
(* Functions applied on their own: the reply classification of the client  *)
(* and the signature extraction of the HTTP layer                          *)
(***************************************************************************)
MaxName == 3

\* the detection reply of the daemon for a signature name
FoundReply(name) == StreamPrefix \o name \o <<32>> \o FoundSuffix
\* signature names: t, D, x, 1 and '.'
NameBytes == {116, 68, 120, 49, 46}
Names == SeqsUpTo(NameBytes, MaxName) \ {<<>>}

\* replies and near misses of them: other letter case, a byte more or less
FlipCase(b) ==
    IF b \in 65..90 THEN b + 32 ELSE IF b \in 97..122 THEN b - 32 ELSE b
ToUpper(b) == IF b \in 97..122 THEN b - 32 ELSE b
Variants(s) ==
    {s, [i \in 1..Len(s) |-> ToLower(s[i])], [i \in 1..Len(s) |-> ToUpper(s[i])],
     SubSeq(s, 2, Len(s)), SubSeq(s, 1, Len(s) - 1),
     s \o <<32>>, <<32>> \o s, s \o <<10>>, s \o FoundSuffix, StreamPrefix \o s}
        \cup {[s EXCEPT ![i] = FlipCase(s[i])] : i \in 1..Len(s)}
ClassifyInputs == UNION {Variants(s) : s \in DaemonReplies}

(***************************************************************************)
(* The API key middleware                                                  *)
(***************************************************************************)
MaxKey == 2

\* a[i] ^ b[i] and result | x on bytes
RECURSIVE Xor(_, _)
Xor(a, b) ==
    IF a = 0 /\ b = 0 THEN 0
    ELSE (((a % 2) + (b % 2)) % 2) + 2 * Xor(a \div 2, b \div 2)
RECURSIVE Or(_, _)
Or(a, b) ==
    IF a = 0 /\ b = 0 THEN 0
    ELSE (IF (a % 2) + (b % 2) > 0 THEN 1 ELSE 0) + 2 * Or(a \div 2, b \div 2)
\* the loop of constantTimeEquals from index i on, result so far r
RECURSIVE XorAll(_, _, _, _)
XorAll(a, b, i, r) ==
    IF i > Len(a) THEN r ELSE XorAll(a, b, i + 1, Or(r, Xor(a[i], b[i])))

constantTimeEquals_LengthOnly(a, b) ==
    Len(a) = Len(b)

constantTimeEquals(a, b) ==
    IF Len(a) # Len(b) THEN FALSE ELSE XorAll(a, b, 1, 0) = 0

\* r.Header.Get(headerName): the first value of the header, "" without one;
\* h is the sequence of the values the request gives for the configured header
HeaderGet(h) == IF h = <<>> THEN <<>> ELSE h[1]

writeAPIKeyErrorResponse(message) ==
    [code |-> StatusUnauthorized, contentType |-> ContentTypeApplicationJSON,
     wwwAuthenticate |-> "API-Key",
     body |-> [status |-> "error", msg |-> message]]

\* what next.ServeHTTP being called n times and the middleware's own response
\* amount to
Served(n, r) == [next |-> n, response |-> r]

\* APIKeyAuth answering a request without key like one with a wrong key
APIKeyAuth_NoMissingKeyCase(apiKey, h) ==
    IF apiKey = <<>> THEN Served(1, NoResponse)
    ELSE IF ~constantTimeEquals(HeaderGet(h), apiKey)
    THEN Served(0, writeAPIKeyErrorResponse("Invalid API key"))
    ELSE Served(1, NoResponse)

APIKeyAuth(apiKey, h) ==
    IF apiKey = <<>> THEN Served(1, NoResponse)
    ELSE IF HeaderGet(h) = <<>>
    THEN Served(0, writeAPIKeyErrorResponse("API key required"))
    ELSE IF ~constantTimeEquals(HeaderGet(h), apiKey)
    THEN Served(0, writeAPIKeyErrorResponse("Invalid API key"))
    ELSE Served(1, NoResponse)

PathPing ==
    <<47, 114, 101, 115, 116, 47, 118, 49, 47, 112, 105, 110, 103>>
PathHealth ==
    <<47, 104, 101, 97, 108, 116, 104>>
PathReadiness ==
    <<47, 114, 101, 97, 100, 105, 110, 101, 115, 115>>
PathLiveness ==
    <<47, 108, 105, 118, 101, 110, 101, 115, 115>>
PathScan ==
    <<47, 114, 101, 115, 116, 47, 118, 49, 47, 115, 99, 97, 110>>
PathVersion ==
    <<47, 114, 101, 115, 116, 47, 118, 49, 47, 118, 101, 114, 115, 105,
      111, 110>>
PathReload ==
    <<47, 114, 101, 115, 116, 47, 118, 49, 47, 114, 101, 108, 111, 97, 100>>
PathApiData ==
    <<47, 97, 112, 105, 47, 100, 97, 116, 97>>
PathHealthz ==
    <<47, 104, 101, 97, 108, 116, 104, 122>>
PathPingSub ==
    <<47, 114, 101, 115, 116, 47, 118, 49, 47, 112, 105, 110, 103, 47, 46,
      46, 47, 115, 104, 117, 116, 100, 111, 119, 110>>
PathLivenessAdmin ==
    <<47, 108, 105, 118, 101, 110, 101, 115, 115, 45, 97, 100, 109, 105,
      110>>
PathHealthPrefix ==
    <<47, 104, 101, 97, 108, 116>>
PathRoot ==
    <<47>>
publicPaths == <<PathPing, PathHealth, PathReadiness, PathLiveness>>

IsPublicEndpoint(path) ==
    \E i \in 1..Len(publicPaths) : HasPrefix(path, publicPaths[i])

ConditionalAPIKeyAuth(apiKey, path, h) ==
    IF IsPublicEndpoint(path) THEN Served(1, NoResponse) ELSE APIKeyAuth(apiKey, h)

\* keys and header values: s and S
KeyBytes == {115, 83}
Keys == SeqsUpTo(KeyBytes, MaxKey)
\* a request gives the header no value, one, or two
HeaderValues == {<<>>} \cup {<<v>> : v \in Keys} \cup {<<v, w>> : v \in Keys, w \in Keys}
RequestPaths ==
    {PathPing, PathHealth, PathReadiness, PathLiveness, PathScan, PathVersion,
     PathReload, PathApiData, PathHealthz, PathPingSub, PathLivenessAdmin,
     PathHealthPrefix, PathRoot}
AuthInputs == [apiKey : Keys, header : HeaderValues, path : {PathScan}]
ConditionalAuthInputs == [apiKey : Keys, header : HeaderValues, path : RequestPaths]

\* pairs of strings over bytes that differ in one bit, in all bits, or not at
\* all, the empty string and strings of different lengths among them
EqualsBytes == {0, 83, 115, 255}
EqualsInputs == [a : SeqsUpTo(EqualsBytes, MaxKey), b : SeqsUpTo(EqualsBytes, MaxKey)]

InitFn ==
    /\ InitClient
    /\ \/ fn = "parseSignature" /\ arg \in {FoundReply(n) : n \in Names}
       \/ fn = "parseResponse" /\ arg \in ClassifyInputs
       \/ fn = "APIKeyAuth" /\ arg \in AuthInputs
       \/ fn = "ConditionalAPIKeyAuth" /\ arg \in ConditionalAuthInputs
       \/ fn = "constantTimeEquals" /\ arg \in EqualsInputs
    /\ out = [applied |-> FALSE, val |-> <<>>]

ApplyParseSignature ==
    /\ fn = "parseSignature"
    /\ ~out.applied
    /\ out' = [applied |-> TRUE, val |-> parseSignature(arg)]
    /\ UNCHANGED <<pc, op, size, content, readerFails, writeThrough, ctx,
                   cancelledAt, conn, closedAt, closes, sent, wbuf, inbox, err,
                   resp, ret, dials, childVars, fn, arg, concVars, http>>

ApplyParseResponse ==
    /\ fn = "parseResponse"
    /\ ~out.applied
    /\ out' = [applied |-> TRUE, val |-> parseResponse(arg)]
    /\ UNCHANGED <<pc, op, size, content, readerFails, writeThrough, ctx,
                   cancelledAt, conn, closedAt, closes, sent, wbuf, inbox, err,
                   resp, ret, dials, childVars, fn, arg, concVars, http>>

ApplyAPIKeyAuth ==
    /\ fn = "APIKeyAuth"
    /\ ~out.applied
    /\ out' = [applied |-> TRUE, val |-> APIKeyAuth(arg.apiKey, arg.header)]
    /\ UNCHANGED <<pc, op, size, content, readerFails, writeThrough, ctx,
                   cancelledAt, conn, closedAt, closes, sent, wbuf, inbox, err,
                   resp, ret, dials, childVars, fn, arg, concVars, http>>

ApplyConditionalAPIKeyAuth ==
    /\ fn = "ConditionalAPIKeyAuth"
    /\ ~out.applied
    /\ out' = [applied |-> TRUE,
               val |-> ConditionalAPIKeyAuth(arg.apiKey, arg.path, arg.header)]
    /\ UNCHANGED <<pc, op, size, content, readerFails, writeThrough, ctx,
                   cancelledAt, conn, closedAt, closes, sent, wbuf, inbox, err,
                   resp, ret, dials, childVars, fn, arg, concVars, http>>

ApplyConstantTimeEquals ==
    /\ fn = "constantTimeEquals"
    /\ ~out.applied
    /\ out' = [applied |-> TRUE, val |-> constantTimeEquals(arg.a, arg.b)]
    /\ UNCHANGED <<pc, op, size, content, readerFails, writeThrough, ctx,
                   cancelledAt, conn, closedAt, closes, sent, wbuf, inbox, err,
                   resp, ret, dials, childVars, fn, arg, concVars, http>>

NextFn ==
    \/ ApplyParseSignature
    \/ ApplyParseResponse
    \/ ApplyAPIKeyAuth
    \/ ApplyConditionalAPIKeyAuth
    \/ ApplyConstantTimeEquals

SpecFn == InitFn /\ [][NextFn]_vars

\* C12: the signature extracted from the reply 'stream: <name> FOUND' is
\* <name>, the bytes between the prefix 'stream: ' and the suffix ' FOUND'.
C12_SignatureIsName ==
    (fn = "parseSignature" /\ out.applied)
        => out.val = SubSeq(arg, Len(StreamPrefix) + 1, Len(arg) - Len(FoundSuffix) - 1)

\* the three reply patterns, as the classification rules state them
UpperCased(s) == [i \in 1..Len(s) |-> ToUpper(s[i])]
IsSizeLimitReply(b) == UpperCased(b) = UpperCased(RespErrScanFileSizeLimitExceeded)
IsDetectionReply(b) ==
    /\ Len(b) >= 8 /\ SubSeq(b, 1, 8) = StreamPrefix
    /\ Len(b) >= 5 /\ SubSeq(b, Len(b) - 4, Len(b)) = FoundSuffix
IsUnknownCommandReply(b) == b = RespErrUnknownCommand
PatternsMatching(b) ==
    (IF IsSizeLimitReply(b) THEN {"size"} ELSE {})
        \cup (IF IsDetectionReply(b) THEN {"found"} ELSE {})
        \cup (IF IsUnknownCommandReply(b) THEN {"unknown"} ELSE {})

\* C13: the classification of a reply is SizeLimitExceeded iff the reply is the
\* size-limit message ignoring letter case, VirusFound iff it starts with
\* 'stream: ' and ends with 'FOUND', UnknownCommand iff it is 'UNKNOWN COMMAND'
\* exactly, and no error otherwise; no reply matches two of the patterns.
C13_Classification ==
    (fn = "parseResponse" /\ out.applied)
        => /\ (out.val = ErrScanFileSizeLimitExceeded) <=> IsSizeLimitReply(arg)
           /\ (out.val = ErrVirusFound) <=> IsDetectionReply(arg)
           /\ (out.val = ErrUnknownCommand) <=> IsUnknownCommandReply(arg)
           /\ (out.val = NilErr) <=> (PatternsMatching(arg) = {})
           /\ Cardinality(PatternsMatching(arg)) <= 1

\* the size-limit message in lower case was classified SizeLimitExceeded
C13_Witness ==
    /\ fn = "parseResponse"
    /\ out.applied
    /\ arg = RespSizeLimitLower
    /\ out.val = ErrScanFileSizeLimitExceeded

\* the literal byte sequence of each fixed command: z or n, the command word,
\* then the null byte (z) or the newline (n)
WireLiteral(o) ==
    CASE o = "Ping" -> <<122>> \o <<80, 73, 78, 71>> \o <<0>>
      [] o = "Version" -> <<122>> \o <<86, 69, 82, 83, 73, 79, 78>> \o <<0>>
      [] o = "Reload" -> <<122>> \o <<82, 69, 76, 79, 65, 68>> \o <<0>>
      [] o = "Stats" -> <<122>> \o <<83, 84, 65, 84, 83>> \o <<0>>
      [] o = "Shutdown" -> <<122>> \o <<83, 72, 85, 84, 68, 79, 87, 78>> \o <<0>>
      [] o = "VersionCommands" ->
            <<110>> \o <<86, 69, 82, 83, 73, 79, 78, 67, 79, 77, 77, 65, 78, 68, 83>>
                \o <<10>>

\* C14: what a fixed command has written to its session is nothing or exactly
\* the command's literal byte sequence with its terminator, and it is that
\* sequence once the operation reads the reply or has read one.
C14_FixedCommandBytes ==
    op \in FixedOps
        => /\ sent \in {<<>>, WireLiteral(op)}
           /\ (pc = "read" \/ (Returned /\ ~resp.nil)) => sent = WireLiteral(op)
           /\ wbuf = <<>>

\* the capability-list command was sent, newline-terminated, and answered
C14_Witness ==
    /\ Returned
    /\ op = "VersionCommands"
    /\ ~resp.nil
    /\ sent = WireLiteral("VersionCommands")

\* the end-of-transfer marker of a scan has reached the daemon
Uploaded == Len(sent) >= Len(CmdInstream) + 8 /\ HasSuffix(sent, <<0, 0, 0, 0>>)

\* C15: when the daemon answers an uploaded scan with 'stream: OK' and the null
\* terminator, and the transport does not fail, InStream returns exactly the
\* bytes 'stream: OK' and a nil error.
C15_CleanScanRoundTrip ==
    (Returned /\ op = "InStream" /\ Uploaded /\ conn # "fault"
        /\ inbox = <<115, 116, 114, 101, 97, 109, 58, 32, 79, 75, 0>>)
        => ret = [payload |-> Bytes(<<115, 116, 114, 101, 97, 109, 58, 32, 79, 75>>),
                  err |-> NilErr]

\* a scan of one byte was uploaded, answered 'stream: OK' and returned it
C15_Witness ==
    /\ Returned
    /\ op = "InStream"
    /\ content = <<65>>
    /\ size = SizeOfLen(1)
    /\ Uploaded
    /\ inbox = RespScan \o <<0>>
    /\ ret = [payload |-> Bytes(RespScan), err |-> NilErr]

\* C16: a protocol operation dials once and only once, starts without a
\* session, and when the dial fails, or the context is done before the dial
\* completes, it returns a NetworkError with a nil payload, has written and
\* read nothing, and has no session.
C16_OneDialNoRetry ==
    /\ dials <= 1
    /\ pc \in {"idle", "dial"} => (~Dialed /\ dials = 0 /\ sent = <<>>)
    /\ (op \in Ops /\ pc \notin {"idle", "dial"}) => dials = 1
    /\ (op \in Ops /\ Returned /\ cancelledAt \in {"idle", "dial"}) => ~Dialed
    /\ (op \in Ops /\ Returned /\ ~Dialed)
          => /\ isNetError(ret.err)
             /\ ret.payload.nil
             /\ sent = <<>> /\ wbuf = <<>>
             /\ resp.nil
             /\ closes = 0

\* the context was cancelled during the dial and the operation returned
C16_Witness ==
    /\ Returned
    /\ op = "Stats"
    /\ cancelledAt = "dial"
    /\ ~Dialed
    /\ dials = 1
    /\ isNetError(ret.err)

UpdateSucceeded == ret.err = NilErr
UpdateCancelled ==
    ret.err.msg = "freshclam command cancelled" /\ "context.Canceled" \in ret.err.is
UpdateFailed ==
    ret.err.msg = "freshclam command failed" /\ RunError(proc).is \subseteq ret.err.is
HasSuccessPhrase(o) ==
    \/ Contains(o, PhraseDatabaseUpdated)
    \/ Contains(o, PhraseUpToDate)
    \/ Contains(o, PhraseOutdated)

\* C17: FreshClam returns the combined output the utility produced, whatever
\* the outcome.
C17_OutputAlwaysReturned ==
    (Returned /\ op = "FreshClam") => ret.payload = OutputBytes(output)

\* C18: FreshClam succeeds when the utility exits zero; when it does not, the
\* result is the cancellation error if the context is done, whatever the
\* output says, else success if the output contains a success phrase, else
\* the generic failure wrapping the exit error.
C18_UpdateOutcome ==
    (Returned /\ op = "FreshClam")
        => IF proc = "exit0" THEN UpdateSucceeded
           ELSE IF ctx = "done" THEN UpdateCancelled /\ ~UpdateFailed
           ELSE IF HasSuccessPhrase(output) THEN UpdateSucceeded
           ELSE UpdateFailed /\ ~UpdateCancelled

\* the utility printed a success phrase, exited non-zero, the context was
\* done: FreshClam reported the cancellation
C18_Witness ==
    /\ Returned
    /\ op = "FreshClam"
    /\ proc = "exit1"
    /\ ctx = "done"
    /\ output = OutUpToDate
    /\ UpdateCancelled

\* C20: once an operation has returned, its session is closed and nothing
\* reads from it or writes to it any more, and the child process it started
\* has ended: no step after the return changes what was sent, buffered or
\* read, closes again, or is a step of the child.
C20_NothingOutlivesTheCall ==
    /\ [](Returned => (proc # "running" /\ (Dialed => closes = 1)))
    /\ [][Returned => UNCHANGED <<sent, wbuf, resp, closes, proc, output>>]_vars

\* the context was done while the child ran: the child was killed, and
\* FreshClam returned only after it had ended
C20_Witness ==
    /\ Returned
    /\ op = "FreshClam"
    /\ cancelledAt = "wait"
    /\ proc = "killed"
    /\ output # <<>>

(***************************************************************************)
(* Concurrent callers on one Client.  Each caller runs one fixed command   *)
(* (Ping or Reload, both through SendCommand); the sessions they dial are  *)
(* kept in one pool, in dial order, and each records who used it.          *)
(***************************************************************************)
ConcOps == {"Ping", "Reload"}
ConcReplies ==
    {RespPing \o <<0>>, RespReload \o <<0>>, RespPing}
NewSession(p) ==
    [owner |-> p, state |-> "open", sent |-> <<>>, inbox |-> <<>>,
     closes |-> 0, users |-> {}]

\* the session a call works on, were conn a field of the Client: the one
\* dialed last, by whichever caller
SessionOf_SharedField(p) == Len(sessions)

\* the session a call works on: conn, a local variable of the call, holding
\* what its own DialContext returned
SessionOf(p) == calls[p].sess

\* what a read from or a write to the session finds: a closed session fails
ConnState(s) ==
    IF sessions[s].closes > 0 THEN "fault" ELSE sessions[s].state

\* the call returns r; its deferred conn.Close() runs
ConcReturn(p, s, r) ==
    /\ calls' = [calls EXCEPT ![p].pc = "done", ![p].ret = r]
    /\ sessions' = [sessions EXCEPT ![s].closes = @ + 1,
                                    ![s].users = @ \cup {p}]

ConcCall(p) ==
    /\ calls[p].pc = "idle"
    /\ \E o \in ConcOps :
          calls' = [calls EXCEPT ![p].pc = "dial", ![p].op = o]
    /\ UNCHANGED <<sessions, cfg>>
    /\ UNCHANGED <<pc, op, size, content, readerFails, writeThrough, ctx,
                   cancelledAt, conn, closedAt, closes, sent, wbuf, inbox, err,
                   resp, ret, dials, childVars, fnVars, http>>

ConcDialOk(p) ==
    /\ calls[p].pc = "dial"
    /\ sessions' = Append(sessions, NewSession(p))
    /\ calls' = [calls EXCEPT ![p].pc = "send", ![p].sess = Len(sessions) + 1]
    /\ UNCHANGED cfg
    /\ UNCHANGED <<pc, op, size, content, readerFails, writeThrough, ctx,
                   cancelledAt, conn, closedAt, closes, sent, wbuf, inbox, err,
                   resp, ret, dials, childVars, fnVars, http>>

ConcDialFail(p) ==
    /\ calls[p].pc = "dial"
    /\ calls' = [calls EXCEPT
                    ![p].pc = "done",
                    ![p].ret = [payload |-> NilBytes,
                                err |-> Errorf(DialErrorMsg(calls[p].op), NetOpError)]]
    /\ UNCHANGED <<sessions, cfg>>
    /\ UNCHANGED <<pc, op, size, content, readerFails, writeThrough, ctx,
                   cancelledAt, conn, closedAt, closes, sent, wbuf, inbox, err,
                   resp, ret, dials, childVars, fnVars, http>>

ConcSendCommandWrite(p) ==
    /\ calls[p].pc = "send"
    /\ LET s == SessionOf(p)
           r == [resp |-> NilBytes,
                 err |-> Errorf("error while flushing command", NetOpError)]
       IN  IF ConnState(s) = "open"
           THEN /\ sessions' = [sessions EXCEPT
                                   ![s].sent = @ \o CommandOf(calls[p].op),
                                   ![s].users = @ \cup {p}]
                /\ calls' = [calls EXCEPT ![p].pc = "read"]
           ELSE ConcReturn(p, s, OpReply(calls[p].op, r))
    /\ UNCHANGED cfg
    /\ UNCHANGED <<pc, op, size, content, readerFails, writeThrough, ctx,
                   cancelledAt, conn, closedAt, closes, sent, wbuf, inbox, err,
                   resp, ret, dials, childVars, fnVars, http>>

ConcSendCommandRead(p) ==
    /\ calls[p].pc = "read"
    /\ LET s == SessionOf(p)
       IN  \E r \in readResponse(sessions[s].inbox, ConnState(s)) :
              ConcReturn(p, s, OpReply(calls[p].op, r))
    /\ UNCHANGED cfg
    /\ UNCHANGED <<pc, op, size, content, readerFails, writeThrough, ctx,
                   cancelledAt, conn, closedAt, closes, sent, wbuf, inbox, err,
                   resp, ret, dials, childVars, fnVars, http>>

\* the daemon replies on a session
ConcDaemonReply(s) ==
    /\ sessions[s].state = "open"
    /\ sessions[s].closes = 0
    /\ sessions[s].inbox = <<>>
    /\ \E r \in ConcReplies : sessions' = [sessions EXCEPT ![s].inbox = r]
    /\ UNCHANGED <<calls, cfg>>
    /\ UNCHANGED <<pc, op, size, content, readerFails, writeThrough, ctx,
                   cancelledAt, conn, closedAt, closes, sent, wbuf, inbox, err,
                   resp, ret, dials, childVars, fnVars, http>>

\* the daemon closes a session
ConcDaemonClose(s) ==
    /\ sessions[s].state = "open"
    /\ sessions[s].closes = 0
    /\ sessions' = [sessions EXCEPT ![s].state = "peerClosed"]
    /\ UNCHANGED <<calls, cfg>>
    /\ UNCHANGED <<pc, op, size, content, readerFails, writeThrough, ctx,
                   cancelledAt, conn, closedAt, closes, sent, wbuf, inbox, err,
                   resp, ret, dials, childVars, fnVars, http>>

NextConc ==
    \/ \E p \in Callers : ConcCall(p)
    \/ \E p \in Callers : ConcDialOk(p)
    \/ \E p \in Callers : ConcDialFail(p)
    \/ \E p \in Callers : ConcSendCommandWrite(p)
    \/ \E p \in Callers : ConcSendCommandRead(p)
    \/ \E s \in DOMAIN sessions : ConcDaemonReply(s)
    \/ \E s \in DOMAIN sessions : ConcDaemonClose(s)

SpecConc == Init /\ [][NextConc]_vars

\* every session was written, read and closed by the caller that dialed it
\* only, and carries that caller's command and nothing else
OwnerOnly ==
    \A s \in DOMAIN sessions :
       /\ sessions[s].users \subseteq {sessions[s].owner}
       /\ calls[sessions[s].owner].sess = s
       /\ sessions[s].closes <= 1
       /\ sessions[s].sent \in {<<>>, CommandOf(calls[sessions[s].owner].op)}

\* a caller's next step is possible whatever the other callers are doing; a
\* read waits for its own session's daemon only
NoWaiting ==
    \A p \in Callers :
       /\ calls[p].pc = "idle" => ENABLED ConcCall(p)
       /\ calls[p].pc = "dial" => (ENABLED ConcDialOk(p) /\ ENABLED ConcDialFail(p))
       /\ calls[p].pc = "send" => ENABLED ConcSendCommandWrite(p)
       /\ (/\ calls[p].pc = "read"
           /\ \/ IndexByte(sessions[calls[p].sess].inbox, ReadDelim) > 0
              \/ sessions[calls[p].sess].state = "peerClosed")
             => ENABLED ConcSendCommandRead(p)

\* the results the operation can give when it runs alone and the daemon
\* treats its session as it treated this caller's
AloneResults(p) ==
    LET c == calls[p]
    IN  IF c.sess = 0
        THEN {[payload |-> NilBytes, err |-> Errorf(DialErrorMsg(c.op), NetOpError)]}
        ELSE LET s == sessions[c.sess]
             IN  IF s.sent = <<>>
                 THEN IF s.state = "open" THEN {}
                      ELSE {OpReply(c.op,
                                    [resp |-> NilBytes,
                                     err |-> Errorf("error while flushing command",
                                                    NetOpError)])}
                 ELSE {OpReply(c.op, r) : r \in readResponse(s.inbox, s.state)}

\* C19: with several operations running concurrently on one Client, every
\* session is written, read and closed by the operation that dialed it only;
\* no operation waits on another; the Client's configuration stays as
\* constructed; and what each operation returns is what it returns alone
\* against the same daemon behaviour on its session.
C19_ConcurrentCallsIndependent ==
    /\ OwnerOnly
    /\ NoWaiting
    /\ cfg = ClientConfig
    /\ \A p \in Callers : calls[p].pc = "done" => calls[p].ret \in AloneResults(p)

\* both callers have returned; the second caller dialed first; one got PONG
\* for its Ping, the other an unexpected reply to its Reload
C19_Witness ==
    /\ \A p \in Callers : calls[p].pc = "done" /\ calls[p].sess # 0
    /\ sessions[1].owner = 2
    /\ calls[1].op = "Ping"
    /\ calls[1].ret = [payload |-> Bytes(RespPing), err |-> NilErr]
    /\ calls[2].op = "Reload"
    /\ ErrorsIs(calls[2].ret.err, ErrUnexpectedResponse)

\* the request's header has a value equal to the key, first or not
CarriesKey(h, k) == \E i \in 1..Len(h) : h[i] = k
\* the request's header has no value, or empty ones only
NoValue(h) == \A i \in 1..Len(h) : h[i] = <<>>
Unauthorized(r, m) ==
    /\ r.code = StatusUnauthorized
    /\ r.body = [status |-> "error", msg |-> m]
    /\ r.contentType = "application/json"
    /\ r.wwwAuthenticate = "API-Key"

\* C21: without a configured key every request reaches the wrapped handler;
\* with one, the handler is invoked, once, exactly when the configured
\* header carries a value equal to the key; a request with no value in the
\* header gets 401 'API key required', one with a different value 401
\* 'Invalid API key', both with the JSON content type and WWW-Authenticate.
C21_KeyInHeaderAdmits ==
    (fn = "APIKeyAuth" /\ out.applied)
        => IF arg.apiKey = <<>>
           THEN out.val.next = 1
           ELSE /\ out.val.next = (IF CarriesKey(arg.header, arg.apiKey) THEN 1 ELSE 0)
                /\ NoValue(arg.header)
                      => Unauthorized(out.val.response, "API key required")
                /\ (~NoValue(arg.header) /\ ~CarriesKey(arg.header, arg.apiKey))
                      => Unauthorized(out.val.response, "Invalid API key")

\* C21, amended: the value that counts is the first one the request gives
\* for the configured header.  With a key configured the handler is invoked,
\* once, exactly when that first value equals the key; when there is no
\* first value or it is empty the answer is 401 'API key required'; when it
\* is another value, 401 'Invalid API key'.
C21_FirstHeaderValueAdmits ==
    (fn = "APIKeyAuth" /\ out.applied)
        => IF arg.apiKey = <<>>
           THEN out.val = Served(1, NoResponse)
           ELSE LET v == IF arg.header = <<>> THEN <<>> ELSE arg.header[1]
                IN  /\ out.val.next = (IF v = arg.apiKey THEN 1 ELSE 0)
                    /\ v = arg.apiKey => out.val.response = NoResponse
                    /\ v = <<>> => Unauthorized(out.val.response, "API key required")
                    /\ v \notin {<<>>, arg.apiKey}
                          => Unauthorized(out.val.response, "Invalid API key")

\* a request without a value for the header was answered 401 'API key
\* required' and never reached the handler
C21_Witness ==
    /\ fn = "APIKeyAuth"
    /\ out.applied
    /\ arg.apiKey = <<115, 83>>
    /\ arg.header = <<>>
    /\ out.val.next = 0
    /\ Unauthorized(out.val.response, "API key required")

\* C22: with a key configured, a request that carries no valid key reaches
\* the wrapped handler only if its path is /rest/v1/ping, /health, /readiness
\* or /liveness; on any other path it is answered 401 and does not reach the
\* handler.
C22_OnlyPublicPathsBypass ==
    (/\ fn = "ConditionalAPIKeyAuth"
     /\ out.applied
     /\ arg.apiKey # <<>>
     /\ ~CarriesKey(arg.header, arg.apiKey))
        => IF arg.path \in {PathPing, PathHealth, PathReadiness, PathLiveness}
           THEN TRUE
           ELSE out.val.next = 0 /\ out.val.response.code = StatusUnauthorized

\* the /scan handler has answered
ScanAnswered == op = "InStream" /\ http # NoResponse
\* the upload went through and the daemon's reply reports a detection
InfectedUpload ==
    /\ pc = "done"
    /\ op = "InStream"
    /\ ~readerFails
    /\ DeclaredSizeMatches
    /\ Uploaded
    /\ ~resp.nil
    /\ HasPrefix(resp.bytes, StreamPrefix)
    /\ HasSuffix(resp.bytes, <<32>> \o FoundSuffix)

\* C23: for an infected upload /scan answers 200 with status 'error',
\* virus_found true, the signature name taken from the reply, and msg the
\* daemon's reply text itself.
C23_InfectedScanResponse ==
    (ScanAnswered /\ InfectedUpload)
        => /\ http.code = StatusOK
           /\ http.body.status = "error"
           /\ http.body.virus_found
           /\ http.body.signature
                 = SubSeq(resp.bytes, Len(StreamPrefix) + 1,
                          Len(resp.bytes) - Len(FoundSuffix) - 1)
           /\ http.body.msg = Text("", NilErr, resp.bytes)

\* errors a Clamaver can hand to the handler: those of the client, and a
\* network error and a protocol error as a substitute client may return
HandlerErrors ==
    {Errorf("freshclam command cancelled", ContextCanceled),
     Errorf("freshclam command failed", ExitError),
     Errorf("freshclam command failed", StartError),
     NetOpError, Errorf("error while sending command", NetOpError),
     ErrUnknownCommand, ErrScanFileSizeLimitExceeded}
UpdateAnswered == op = "FreshClam" /\ http # NoResponse
\* the output a body carries: the text of its output field, nothing when the
\* field is left out
OutputOf(body) == IF body.output.present THEN body.output.text ELSE <<>>

\* C24: /freshclam answers 200, status 'success' and the captured output
\* when the client returned no error; 500, status 'error', message
\* 'freshclam update failed' and the output the client returned when it
\* returned an error, whichever error, a network error included; both as
\* application/json.
C24_UpdateResponse ==
    UpdateAnswered
        => /\ http.contentType = "application/json"
           /\ OutputOf(http.body) = ret.payload.bytes
           /\ IF ret.err = NilErr
              THEN /\ http.code = StatusOK
                   /\ http.body.status = "success"
                   /\ OutputOf(http.body) = output
              ELSE /\ http.code = StatusInternalServerError
                   /\ http.body.status = "error"
                   /\ http.body.message = "freshclam update failed"
           /\ \A e \in HandlerErrors, o \in FreshOutputs \cup {<<>>} :
                 LET r == FreshClamHandler([payload |-> OutputBytes(o), err |-> e])
                 IN  /\ r.code = StatusInternalServerError
                     /\ r.contentType = "application/json"
                     /\ r.body.status = "error"
                     /\ r.body.message = "freshclam update failed"
                     /\ OutputOf(r.body) = o

\* the utility failed after printing an error: /freshclam answered 500 with
\* that output
C24_Witness ==
    /\ UpdateAnswered
    /\ proc = "exit1"
    /\ output = OutError
    /\ http.code = StatusInternalServerError
    /\ http.body.output = [present |-> TRUE, text |-> OutError]

\* the daemon wrote the clean-scan acknowledgement on the session
DaemonAcknowledgedClean == HasPrefix(inbox, RespScan)

\* C25: a scan returns without error, and /scan reports 'noerror' with
\* virus_found false, only if the daemon replied 'stream: OK'; no reply at
\* all, an empty reply or any other text is not reported as a clean scan.
C25_CleanOnlyOnAcknowledgement ==
    /\ (Returned /\ op = "InStream" /\ DeclaredSizeMatches /\ ~readerFails
            /\ ret.err = NilErr)
          => DaemonAcknowledgedClean
    /\ (ScanAnswered /\ DeclaredSizeMatches /\ ~readerFails
            /\ http.code = StatusOK /\ http.body.status = "noerror")
          => (DaemonAcknowledgedClean /\ ~http.body.virus_found)

(***************************************************************************)
(* Progress.  A call runs on: whenever one of its own steps is possible it *)
(* eventually takes one.  Nothing is assumed of the daemon, the transport, *)
(* the caller's context or the child process.                              *)
(***************************************************************************)
ClientStep ==
    \/ DialOk
    \/ DialFail
    \/ SendCommandWrite
    \/ SendCommandRead
    \/ InStreamCommand
    \/ InStreamLength
    \/ InStreamCopy
    \/ InStreamCopyFailed
    \/ InStreamEndOfTransfer
    \/ InStreamReply
    \/ FreshClamStart
    \/ FreshClamWait
    \/ HandlerInStream
    \/ HandlerFreshClam

SpecLive == Init /\ [][Next]_vars /\ WF_vars(ClientStep)

\* C26: after an I/O failure in a scan (the transport has failed, or the
\* content copy has failed, the daemon silent and the session still open)
\* the call closes the session and returns an error, whatever the daemon
\* does or does not do afterwards.
C26_FailureLeadsToClosed ==
    /\ (op = "InStream" /\ pc \notin {"idle", "dial", "done"} /\ conn = "fault")
          ~> (Returned /\ closes = 1)
    /\ (op = "InStream" /\ pc = "copyfailed")
          ~> (Returned /\ closes = 1 /\ ret.err # NilErr)

\* the steps of a scan call and the steps each may be followed by
ScanSuccessors(p) ==
    CASE p = "idle" -> {"dial"}
      [] p = "dial" -> {"command", "done"}
      [] p = "command" -> {"length", "done"}
      [] p = "length" -> {"copy", "done"}
      [] p = "copy" -> {"end", "copyfailed"}
      [] p = "copyfailed" -> {"done"}
      [] p = "end" -> {"reply", "done"}
      [] p = "reply" -> {"done"}
      [] p = "done" -> {}
HeaderLen == Len(CmdInstream) + Len(PutUint32(MaxUint32))

\* C27: the network actions of a scan call happen in the order dial, start
\* command, length prefix, content, end-of-stream marker, reply read, close.
\* Each write extends what the previous steps put on the wire; the reply is
\* read on the success path only once the marker is on the wire; a failed
\* step is followed by the return and the close, nothing more is written,
\* and the one read after a failure is the read that follows a failed copy.
C27_NetworkActionsInOrder ==
    [][op = "InStream" =>
         /\ pc' # pc => pc' \in ScanSuccessors(pc)
         /\ sent' # sent =>
               \/ pc = "command" /\ sent = <<>> /\ sent' = CmdInstream
               \/ /\ pc = "length"
                  /\ sent = CmdInstream
                  /\ Len(sent') = HeaderLen
                  /\ HasPrefix(sent', sent)
                  /\ pc' = "copy"
               \/ pc = "copy" /\ Len(sent) = HeaderLen /\ sent' = sent \o content
               \/ /\ pc = "end"
                  /\ Len(sent) >= HeaderLen
                  /\ sent' = sent \o wbuf \o EndOfTransfer
                  /\ pc' = "reply"
         /\ (pc = "reply" /\ pc' = "done")
               => (Len(sent) >= HeaderLen + 4 /\ HasSuffix(sent, EndOfTransfer))
         /\ (~resp'.nil /\ resp.nil) => pc \in {"reply", "copyfailed"}
         /\ closes' # closes => (closes = 0 /\ pc' = "done" /\ conn # "none")
         /\ (pc \in {"command", "length", "end"} /\ conn # "open" /\ pc' # pc)
               => (pc' = "done" /\ sent' = sent /\ ret'.err # NilErr)
         /\ pc = "copyfailed" => (sent' = sent /\ wbuf' = wbuf)
         /\ (pc = "copyfailed" /\ pc' # pc) => ret'.err # NilErr
         /\ pc = "dial" => (sent = <<>> /\ resp.nil /\ closes = 0)
    ]_vars

\* a scan went through all its steps: start command, length, content and
\* marker are on the wire in this order and the reply was read after them
C27_Witness ==
    /\ Returned
    /\ op = "InStream"
    /\ content = <<65, 65>>
    /\ sent = CmdInstream \o PutUint32(size) \o content \o EndOfTransfer
    /\ resp = Bytes(RespScan)
    /\ ret.err = NilErr
    /\ closes = 1

\* the error kind parseResponse gives a reply
ClassifiedAs(b, e) ==
    CASE EqualFold(b, RespErrScanFileSizeLimitExceeded) -> e = ErrScanFileSizeLimitExceeded
      [] OTHER ->
           IF HasPrefix(b, StreamPrefix) /\ HasSuffix(b, FoundSuffix)
           THEN e = ErrVirusFound
           ELSE b = RespErrUnknownCommand /\ e = ErrUnknownCommand

\* C28: Reload returns nil exactly when the command went out, a reply was
\* read without transport failure, and the reply, its terminator trimmed, is
\* RELOADING byte for byte; a reply classified as a known error gives that
\* error kind, every other reply that differs gives UnexpectedResponse.
C28_ReloadOutcome ==
    (Returned /\ op = "Reload")
        => /\ ret.err = NilErr
                <=> (sent = CmdReload /\ ~resp.nil /\ resp.bytes = RespReload)
           /\ ret.payload = NilBytes
           /\ (~resp.nil /\ resp.bytes # RespReload)
                 => IF KnownErrorReply(resp.bytes)
                    THEN /\ \E e \in {ErrScanFileSizeLimitExceeded, ErrVirusFound,
                                      ErrUnknownCommand} :
                               ClassifiedAs(resp.bytes, e) /\ ErrorsIs(ret.err, e)
                         /\ ~ErrorsIs(ret.err, ErrUnexpectedResponse)
                    ELSE ErrorsIs(ret.err, ErrUnexpectedResponse)
           /\ resp.nil => (ret.err # NilErr /\ isNetError(ret.err))

\* the daemon answered 'reloading': Reload returned UnexpectedResponse
C28_Witness ==
    /\ Returned
    /\ op = "Reload"
    /\ sent = CmdReload
    /\ resp = Bytes(RespReloadLower)
    /\ ErrorsIs(ret.err, ErrUnexpectedResponse)

\* the unsigned integer four bytes encode in network byte order
BigEndianUint32(b) == Int64(b[1] * 256 + b[2], b[3] * 256 + b[4])
\* 1 <= n <= 4294967295
InUint32Range(n) ==
    /\ n.lo \in 0..65535
    /\ \/ n.hi = 0 /\ n.lo >= 1
       \/ n.hi \in 1..65535
\* the length prefix is on the wire
PrefixSent == Len(sent) >= HeaderLen

\* C29: for a declared size n with 1 <= n <= 4294967295 the length prefix
\* InStream sends is n in four bytes, big-endian: decoding it gives n.  For
\* n <= 0 and for n > 4294967295 no length prefix is sent.
C29_LengthPrefix ==
    op = "InStream"
        => /\ PrefixSent
                => /\ InUint32Range(size)
                   /\ BigEndianUint32(SubSeq(sent, Len(CmdInstream) + 1, HeaderLen)) = size
           /\ pc \in {"copy", "copyfailed", "end", "reply"} => PrefixSent
           /\ ~InUint32Range(size) => Len(sent) <= Len(CmdInstream)

\* the largest size: its prefix is four bytes 255
C29_Witness ==
    /\ op = "InStream"
    /\ size = MaxUint32
    /\ pc = "copy"
    /\ sent = CmdInstream \o <<255, 255, 255, 255>>

\* the commands whose reply is handed back to the caller
ReplyOps == {"Ping", "Version", "Stats", "VersionCommands"}
\* what the daemon wrote up to the first null byte, that byte left out
ReplyText ==
    IF IndexByte(inbox, 0) > 0 THEN SubSeq(inbox, 1, IndexByte(inbox, 0) - 1) ELSE inbox

\* C30: Ping, Version, Stats and VersionCommands return the reply, trimmed,
\* with a nil error exactly when the command went out, the reply was read
\* without transport failure and it is none of the known error replies,
\* whatever else it says; in every other outcome they return a nil payload
\* and an error; never a payload together with an error.
C30_ReplyOrError ==
    (Returned /\ op \in ReplyOps)
        => LET accepted == /\ sent = CommandOf(op)
                           /\ ~resp.nil
                           /\ ~KnownErrorReply(resp.bytes)
           IN  /\ accepted
                     => /\ ret.err = NilErr
                        /\ ret.payload = Bytes(ReplyText)
               /\ ~accepted => (ret.payload = NilBytes /\ ret.err # NilErr)
               /\ ~(ret.payload # NilBytes /\ ret.err # NilErr)

\* Ping was answered RELOADING and returned it, without error
C30_Witness ==
    /\ Returned
    /\ op = "Ping"
    /\ inbox = RespReload \o <<0>>
    /\ ret = [payload |-> Bytes(RespReload), err |-> NilErr]

\* the call has returned from a read of the reply: a fixed command after
\* its command went out, a scan after its end-of-stream marker went out
ReplyReadReturned ==
    /\ Returned
    /\ \/ op \in FixedOps /\ sent = CommandOf(op)
       \/ op = "InStream" /\ Uploaded /\ err = NilErr
\* the daemon wrote no terminator
Unterminated == IndexByte(inbox, ReadDelim) = 0

\* C31: when the daemon closes the connection without having sent a
\* terminator, what it sent until then, nothing included, is the reply: it is
\* returned by the read and classified as any reply is, and the end of the
\* stream is not reported as a transport error.  When the read fails in
\* another way the reply is nil and the call returns an error.
C31_EndOfStreamEndsReply ==
    (ReplyReadReturned /\ Unterminated)
        => /\ conn = "peerClosed"
                 => /\ resp = Bytes(inbox)
                    /\ ~isNetError(ret.err)
                    /\ (op # "Shutdown" /\ KnownErrorReply(inbox))
                          => \E e \in {ErrScanFileSizeLimitExceeded, ErrVirusFound,
                                       ErrUnknownCommand} :
                                ClassifiedAs(inbox, e) /\ ErrorsIs(ret.err, e)
                    /\ (op \notin {"Shutdown", "Reload"} /\ ~KnownErrorReply(inbox))
                          => ret = [payload |-> Bytes(inbox), err |-> NilErr]
           /\ conn = "fault"
                 => /\ resp.nil
                    /\ ret.payload = NilBytes
                    /\ isNetError(ret.err)
           /\ conn \in {"peerClosed", "fault"}

\* the daemon wrote UNKNOWN COMMAND and closed: Version classified the text
\* as it classifies a terminated reply
C31_Witness ==
    /\ Returned
    /\ op = "Version"
    /\ sent = CmdVersion
    /\ conn = "peerClosed"
    /\ inbox = RespErrUnknownCommand
    /\ resp = Bytes(RespErrUnknownCommand)
    /\ ErrorsIs(ret.err, ErrUnknownCommand)
    /\ ~isNetError(ret.err)

\* C32: constantTimeEquals(a, b) is true exactly when a and b are the same
\* string, the empty string and strings of different lengths included.
C32_EqualsIffSame ==
    (fn = "constantTimeEquals" /\ out.applied)
        => (out.val <=> arg.a = arg.b)

\* two strings of one length that differ in one bit of their last byte
C32_Witness ==
    /\ fn = "constantTimeEquals"
    /\ out.applied
    /\ arg.a = <<115, 83>>
    /\ arg.b = <<115, 115>>
    /\ out.val = FALSE

====
